---- MODULE Spec2Model ----
(***************************************************************************)
(* Model of the vulnissimo command-line client: the `get` and `run`        *)
(* commands of cli.py and the Outputter classes of scan_result_output.py.  *)
(* The remote service, the file system and the user at the prompt are the  *)
(* environment: their answers are drawn nondeterministically.              *)
(*                                                                         *)
(* SpecCli follows both commands with the result going to the console;     *)
(* SpecOut follows each of the four outputters as `get` calls them.  An    *)
(* outputter reads nothing of a command but the snapshot handed to it, and *)
(* `get` hands it snapshots of every status.  FairRun is `run` alone with  *)
(* the fairness of a sequential program; SpecPanel applies the rendering   *)
(* functions of the pretty outputters to every ScanInfo.                   *)
(***************************************************************************)
EXTENDS Integers, Sequences, FiniteSets, TLC

\* ---------------------------------------------------------------- bounds
\* most calls of get_scan_result one `run` of the model makes
MaxFetch == 3
\* most replacement-path prompts one call of output issues in the model
MaxPrompts == 2

\* ------------------------------------------------------------ value sets
\* Python's None (an absent redirect_url, an absent --output-file, no snapshot)
None == "None"

\* models.ScanStatus
ScanStatus == {"PENDING", "RUNNING", "FINISHED"}

\* values of scan_info.progress the service reports
ProgressValues == {10, 30, 100}

\* values of scan_info.redirect_url
RedirectUrls == {None, "x", "y"}

\* file names: the --output-file argument and the answers to the prompt
Paths == {"a", "b"}

\* the default of --indent
DefaultIndent == 2

\* values of --indent
Indents == {0, DefaultIndent}

\* enums.ScanResultOutputType
ScanResultOutputType == {"pretty", "json"}

\* models.RiskLevel
RiskLevel == {"none", "low", "medium", "high", "critical"}

\* what _get_color_by_risk_level may be given: a level, None, or something else
RiskArgs == RiskLevel \cup {None, "unknown"}

\* scan_info.target
Target == "t"

\* models.ScanInfo, the fields the panel reads
ScanInfo ==
    [target : {Target}, redirect_url : RedirectUrls, status : ScanStatus,
     progress : ProgressValues, risk_level : RiskArgs]

\* no ScanInfo given, no panel built
NoInfo == [target |-> None]
NoPanel == [title |-> None]

\* what the service returns from get_scan_result
ScanResult == [status : ScanStatus, progress : ProgressValues, redirect_url : RedirectUrls]

\* the value of scan_result before the first assignment
NoScan == [status |-> None, progress |-> 0, redirect_url |-> None]

\* ---------------------------------------------------------------- state
VARIABLES
    cmd,              \* the command invoked: "get" or "run"
    output_file,      \* --output-file, then the outputter's self.output_file
    output_type,      \* --output-type
    pc,               \* position in the command
    scan_result,      \* local scan_result
    prev_scan_result, \* local prev_scan_result of run
    completed,        \* task.completed of the rich progress bar
    outputter,        \* class of the outputter created by the factory
    files,            \* file system: what each path holds
    outcome,          \* how the command function ended
    fetched,          \* history: snapshots returned by get_scan_result
    shown,            \* history: values given to progress.update
    notices,          \* history: redirect notices, with the iteration
    calls,            \* history: service calls (run_scan, get_scan_result)
    console,          \* history: lines printed, prompts included
    opens,            \* history: open() attempts with their result
    answers,          \* history: answers to the prompt
    rendered,         \* history: snapshots handed to outputter.output
    indent,           \* --indent
    self_indent,      \* the outputter's self.indent: <<n>>, <<>> when it has none
    dumps,            \* history: serializations, with destination and indentation
    scan_info,        \* the ScanInfo given to the panel and colour functions
    panel,            \* the rows _get_scan_info_panel has built
    color,            \* the tag _get_color_by_risk_level has returned
    handles           \* number of file handles output holds open

vars == <<cmd, output_file, output_type, pc, scan_result, prev_scan_result,
          completed, outputter, files, outcome, fetched, shown, notices,
          calls, console, opens, answers, rendered, indent, self_indent, dumps,
          scan_info, panel, color, handles>>

\* the state of the commands and of the outputters' output
cmdVars == <<cmd, output_file, output_type, pc, scan_result, prev_scan_result,
             completed, outputter, files, outcome, fetched, shown, notices,
             calls, console, opens, answers, rendered, indent, self_indent, dumps,
             handles>>

\* the state of the rendering functions
panelVars == <<scan_info, panel, color>>

cliVars == <<scan_result, prev_scan_result, completed, fetched, shown, notices, calls>>
outVars == <<files, opens, answers>>

\* a line on default_console (stream "out"), error_console ("err") or the prompt;
\* arg is the value the line names (a URL, a file name), "" when it names none
Line(stream, msg, arg) == [stream |-> stream, msg |-> msg, arg |-> arg]

\* a call of the service and how it ended: "ok" or "APIError"
Call(op, result) == [op |-> op, result |-> result]

\* ----------------------------------------------------------- the factory
\* a factory that takes an indent of 0 for "no JSON"
create_outputter_FalsyIndent(file, type, n) ==
    IF file = None
    THEN IF type = "json" /\ n # 0 THEN "JsonConsoleOutputter" ELSE "PrettyConsoleOutputter"
    ELSE IF type = "json" /\ n # 0 THEN "JsonFileOutputter" ELSE "PrettyFileOutputter"

\* OutputterFactory.create_outputter: the class of the object returned
create_outputter(file, type, n) ==
    IF file = None
    THEN IF type = "json" THEN "JsonConsoleOutputter" ELSE "PrettyConsoleOutputter"
    ELSE IF type = "json" THEN "JsonFileOutputter" ELSE "PrettyFileOutputter"

\* the constructors, lines 140-141, 173-175, 201-202: only the JSON classes
\* take and keep an indent
InitIndent(class, n) ==
    IF class \in {"JsonConsoleOutputter", "JsonFileOutputter"} THEN <<n>> ELSE <<>>

FileOutputters == {"JsonFileOutputter", "PrettyFileOutputter"}

\* ------------------------------------------------------------------ Init
\* the state at the entry of a command, its arguments apart
Start ==
    /\ pc = "start"
    /\ scan_result = NoScan
    /\ prev_scan_result = NoScan
    /\ completed = 0
    /\ outputter = None
    /\ files = [p \in Paths |-> None]
    /\ outcome = "running"
    /\ fetched = <<>>
    /\ shown = <<>>
    /\ notices = <<>>
    /\ calls = <<>>
    /\ console = <<>>
    /\ opens = <<>>
    /\ answers = <<>>
    /\ rendered = <<>>
    /\ self_indent = <<>>
    /\ dumps = <<>>
    /\ handles = 0

\* the rendering functions are not followed on their own
NoRender ==
    /\ scan_info = NoInfo
    /\ panel = NoPanel
    /\ color = ""

\* `get` or `run` invoked without --output-file: the result goes to the console
InitCli ==
    /\ cmd \in {"get", "run"}
    /\ output_file = None
    /\ output_type \in ScanResultOutputType
    /\ indent \in Indents
    /\ Start
    /\ NoRender

\* `get` invoked with or without --output-file: each of the four outputters
InitOut ==
    /\ cmd = "get"
    /\ output_file \in {None} \cup Paths
    /\ output_type \in ScanResultOutputType
    /\ indent \in Indents
    /\ Start
    /\ NoRender

\* ------------------------------------------------------------ cli.py: get
\* get, lines 52-57: the fetch succeeds, the outputter is built and called
GetFetch ==
    /\ pc = "start"
    /\ cmd = "get"
    /\ \E s \in ScanResult :
        /\ scan_result' = s
        /\ fetched' = Append(fetched, s)
        /\ rendered' = Append(rendered, s)
    /\ calls' = Append(calls, Call("get_scan_result", "ok"))
    /\ outputter' = create_outputter(output_file, output_type, indent)
    /\ self_indent' = InitIndent(outputter', indent)
    /\ pc' = "output"
    /\ UNCHANGED <<cmd, output_file, output_type, prev_scan_result, completed,
                   outcome, shown, notices, console, outVars,
                   indent, dumps,
                   panelVars,
                   handles>>

\* get, lines 53 and 58-59: the fetch raises APIError
GetFetchFail ==
    /\ pc = "start"
    /\ cmd = "get"
    /\ calls' = Append(calls, Call("get_scan_result", "APIError"))
    /\ console' = Append(console, Line("err", "api_error", ""))
    /\ pc' = "done"
    /\ outcome' = "returned"
    /\ UNCHANGED <<cmd, output_file, output_type, scan_result, prev_scan_result,
                   completed, outputter, fetched, shown, notices, rendered, outVars,
                   indent, self_indent, dumps,
                   panelVars,
                   handles>>

\* ------------------------------------------------------------ cli.py: run
\* run, lines 82-98: the scan is created, the three notices are printed
RunScan ==
    /\ pc = "start"
    /\ cmd = "run"
    /\ calls' = Append(calls, Call("run_scan", "ok"))
    /\ console' = console \o <<Line("out", "scan_started", ""),
                               Line("out", "scan_id", ""),
                               Line("out", "live_url", "")>>
    /\ completed' = 0
    /\ prev_scan_result' = NoScan
    /\ pc' = "poll"
    /\ UNCHANGED <<cmd, output_file, output_type, scan_result, outputter, outcome,
                   fetched, shown, notices, rendered, outVars,
                   indent, self_indent, dumps,
                   panelVars,
                   handles>>

\* run, lines 82 and 128-129: run_scan raises APIError
RunScanFail ==
    /\ pc = "start"
    /\ cmd = "run"
    /\ calls' = Append(calls, Call("run_scan", "APIError"))
    /\ console' = Append(console, Line("err", "api_error", ""))
    /\ pc' = "done"
    /\ outcome' = "returned"
    /\ UNCHANGED <<cmd, output_file, output_type, scan_result, prev_scan_result,
                   completed, outputter, fetched, shown, notices, rendered, outVars,
                   indent, self_indent, dumps,
                   panelVars,
                   handles>>

\* the notice printed for every snapshot that carries a redirect
RedirectNewlyPresent_IgnorePrev(cur, prev) == cur.redirect_url # None

\* run, lines 105-108: the condition of the redirect notice
RedirectNewlyPresent(cur, prev) ==
    cur.redirect_url # None /\ (prev = NoScan \/ prev.redirect_url = None)

\* the progress added to the indicator, as progress.update(advance=...) does
UpdateCompleted_Advance(old, progress) == old + progress

\* run, line 113: progress.update(task_id, completed=...)
UpdateCompleted(old, progress) == progress

\* the loop left only once the progress reads 100
IsFinished_At100(s) == s.status = "FINISHED" /\ s.progress = 100

\* the loop left on a PENDING snapshot as well
IsFinished_OrPending(s) == s.status \in {"FINISHED", "PENDING"}

\* run, line 115: the condition of the break
IsFinished(s) == s.status = "FINISHED"

\* run, lines 100-120: one iteration of the polling loop whose fetch succeeds
Poll ==
    /\ pc = "poll"
    /\ Len(fetched) < MaxFetch
    /\ \E s \in ScanResult :
        /\ scan_result' = s
        /\ fetched' = Append(fetched, s)
        /\ IF RedirectNewlyPresent(s, prev_scan_result)
           THEN /\ notices' = Append(notices, [iter |-> Len(fetched) + 1,
                                               url |-> s.redirect_url])
                /\ console' = Append(console, Line("out", "redirect", s.redirect_url))
           ELSE UNCHANGED <<notices, console>>
        /\ completed' = UpdateCompleted(completed, s.progress)
        /\ shown' = Append(shown, completed')
        /\ IF IsFinished(s)
           THEN /\ pc' = "finished"
                /\ UNCHANGED prev_scan_result
           ELSE /\ prev_scan_result' = s
                /\ pc' = "poll"
    /\ calls' = Append(calls, Call("get_scan_result", "ok"))
    /\ UNCHANGED <<cmd, output_file, output_type, outputter, outcome, rendered, outVars,
                   indent, self_indent, dumps,
                   panelVars,
                   handles>>

\* a failed fetch that leaves the loop and renders the snapshot of the
\* iteration before
PollFail_RenderStale ==
    /\ pc = "poll"
    /\ Len(fetched) < MaxFetch
    /\ calls' = Append(calls, Call("get_scan_result", "APIError"))
    /\ console' = Append(console, Line("err", "api_error", ""))
    /\ pc' = IF fetched = <<>> THEN "done" ELSE "finished"
    /\ outcome' = IF fetched = <<>> THEN "returned" ELSE outcome
    /\ UNCHANGED <<cmd, output_file, output_type, scan_result, prev_scan_result,
                   completed, outputter, fetched, shown, notices, rendered, outVars,
                   indent, self_indent, dumps,
                   panelVars,
                   handles>>

\* run, lines 101 and 128-129: get_scan_result raises APIError in the loop
PollFail ==
    /\ pc = "poll"
    /\ Len(fetched) < MaxFetch
    /\ calls' = Append(calls, Call("get_scan_result", "APIError"))
    /\ console' = Append(console, Line("err", "api_error", ""))
    /\ pc' = "done"
    /\ outcome' = "returned"
    /\ UNCHANGED <<cmd, output_file, output_type, scan_result, prev_scan_result,
                   completed, outputter, fetched, shown, notices, rendered, outVars,
                   indent, self_indent, dumps,
                   panelVars,
                   handles>>

\* the render without the completion notice
Complete_NoNotice ==
    /\ pc = "finished"
    /\ outputter' = create_outputter(output_file, output_type, indent)
    /\ self_indent' = InitIndent(outputter', indent)
    /\ rendered' = Append(rendered, scan_result)
    /\ pc' = "output"
    /\ UNCHANGED <<cmd, output_file, output_type, outcome, console, cliVars, outVars,
                   indent, dumps, panelVars, handles>>

\* run, lines 122-126: after the loop
Complete ==
    /\ pc = "finished"
    /\ console' = Append(console, Line("out", "complete", ""))
    /\ outputter' = create_outputter(output_file, output_type, indent)
    /\ self_indent' = InitIndent(outputter', indent)
    /\ rendered' = Append(rendered, scan_result)
    /\ pc' = "output"
    /\ UNCHANGED <<cmd, output_file, output_type, outcome, cliVars, outVars,
                   indent, dumps,
                   panelVars,
                   handles>>

\* ------------------------------------------------- scan_result_output.py
\* the format a class writes
FormatOf(o) == IF o \in {"JsonConsoleOutputter", "JsonFileOutputter"} THEN "json" ELSE "pretty"

\* the lines 216-223 (162-167 on the console): the warning of a running scan
RunningWarning(s) ==
    IF s.status = "RUNNING" THEN <<Line("out", "warning", "")>> ELSE <<>>

\* what a class writes to its destination, in order: lines 144, 151-160,
\* 181-183, 210-214; the warning of a running scan is printed apart
Parts(class) ==
    IF FormatOf(class) = "json" THEN <<"json">>
    ELSE IF class = "PrettyConsoleOutputter"
    THEN <<"rule", "scan_info_panel", "recon_panel">>
    ELSE <<"scan_info_panel", "recon_panel">>

\* one serialization of the result: where it goes, in which format and with
\* which indentation; only the JSON classes read self.indent (lines 144, 182)
Dump(to, class, own_indent) ==
    [to |-> to, format |-> FormatOf(class), parts |-> Parts(class),
     indent |-> IF FormatOf(class) = "json" THEN own_indent ELSE <<>>]

\* JsonConsoleOutputter.output, PrettyConsoleOutputter.output
ConsoleOutput ==
    /\ pc = "output"
    /\ outputter \in {"JsonConsoleOutputter", "PrettyConsoleOutputter"}
    /\ console' = IF outputter = "JsonConsoleOutputter"
                  THEN Append(console, Line("out", "json", ""))
                  ELSE Append(console, Line("out", "pretty", "")) \o RunningWarning(scan_result)
    /\ dumps' = Append(dumps, Dump("console", outputter, self_indent))
    /\ pc' = "done"
    /\ outcome' = "returned"
    /\ UNCHANGED <<cmd, output_file, output_type, outputter, rendered, cliVars, outVars,
                   indent, self_indent,
                   panelVars,
                   handles>>

\* what open(path, "w+") can do: open("") raises FileNotFoundError
OpenResults(path) ==
    IF path = "" THEN {"FileNotFoundError"}
    ELSE {"ok", "PermissionError", "FileNotFoundError", "OSError"}

\* an except clause that catches every OSError
IsCaught_AnyOSError(err) == err \in {"PermissionError", "FileNotFoundError", "OSError"}

\* an except clause that catches FileNotFoundError instead
IsCaught_NotFoundOnly(err) == err = "FileNotFoundError"

\* the except clause of lines 188 and 230
IsCaught(err) == err = "PermissionError"

\* the answer dropped, the next pass opens the same file again
NextOutputFile_KeepOld(old, answer) == old

\* lines 192 and 234: the answer becomes self.output_file
NextOutputFile(old, answer) == answer

Prompts == Cardinality({i \in DOMAIN console : console[i].stream = "prompt"})

\* the context manager leaks the handle when the body raises
ReleaseHandle_OnSuccessOnly(h, result) == IF result = "ok" THEN h - 1 ELSE h

\* the exit of `with open(...) as f`, lines 180 and 207: the handle is closed
\* however the body ended
ReleaseHandle(h, result) == h - 1

\* what the body of the with statement can do once the file is open
WriteResults == {"ok", "PermissionError", "OSError"}

\* the status line is missing
SuccessLines_NoStatus(class, s, path) ==
    IF class = "PrettyFileOutputter" THEN RunningWarning(s) ELSE <<>>

\* the warning printed after the status line
SuccessLines_WarningLast(class, s, path) ==
    <<Line("out", "written", path)>>
        \o (IF class = "PrettyFileOutputter" THEN RunningWarning(s) ELSE <<>>)

\* what output prints after the with statement, lines 184-186 and 216-227
SuccessLines(class, s, path) ==
    (IF class = "PrettyFileOutputter" THEN RunningWarning(s) ELSE <<>>)
        \o <<Line("out", "written", path)>>

\* a pass of the loop ends by the exception r: lines 188-195 and 230-237
\* when it is caught, out of output otherwise
PassFails(r) ==
    /\ IsCaught(r) => Prompts < MaxPrompts
    /\ opens' = Append(opens, [path |-> output_file, result |-> r])
    /\ IF IsCaught(r)
       THEN /\ console' = console \o <<Line("err", "could_not_open", ""),
                                       Line("prompt", "another_file", "")>>
            /\ pc' = "prompt"
            /\ UNCHANGED outcome
       ELSE /\ pc' = "done"
            /\ outcome' = r
            /\ UNCHANGED console

\* JsonFileOutputter.output and PrettyFileOutputter.output, a pass of the
\* loop up to open(): the file is created or truncated and its handle held,
\* or open raises
WriteAttempt ==
    /\ pc = "output"
    /\ outputter \in FileOutputters
    /\ \E r \in OpenResults(output_file) :
        IF r = "ok"
        THEN /\ handles' = handles + 1
             /\ files' = [files EXCEPT ![output_file] = "empty"]
             /\ pc' = "writing"
             /\ UNCHANGED <<opens, console, outcome>>
        ELSE /\ PassFails(r)
             /\ UNCHANGED <<handles, files>>
    /\ UNCHANGED <<cmd, output_file, output_type, outputter, answers, rendered, cliVars,
                   indent, self_indent, dumps, panelVars>>

\* the rest of the pass: the body of the with statement, its exit, and the
\* lines printed after it
WriteFile ==
    /\ pc = "writing"
    /\ \E w \in WriteResults :
        /\ handles' = ReleaseHandle(handles, w)
        /\ IF w = "ok"
           THEN /\ opens' = Append(opens, [path |-> output_file, result |-> w])
                /\ files' = [files EXCEPT ![output_file] = FormatOf(outputter)]
                /\ dumps' = Append(dumps, Dump(output_file, outputter, self_indent))
                /\ console' = console \o SuccessLines(outputter, scan_result, output_file)
                /\ pc' = "done"
                /\ outcome' = "returned"
           ELSE /\ PassFails(w)
                /\ UNCHANGED <<files, dumps>>
    /\ UNCHANGED <<cmd, output_file, output_type, outputter, answers, rendered, cliVars,
                   indent, self_indent, panelVars>>

\* lines 192-195 and 234-237: Prompt.ask returns what the user typed
PromptAnswer ==
    /\ pc = "prompt"
    /\ \E a \in Paths \cup {""} :
        /\ answers' = Append(answers, a)
        /\ output_file' = NextOutputFile(output_file, a)
    /\ pc' = "output"
    /\ UNCHANGED <<cmd, output_type, outputter, files, outcome, opens, console,
                   rendered, cliVars,
                   indent, self_indent, dumps,
                   panelVars,
                   handles>>

\* ------------------------------------- scan_result_output.py: rendering
\* str(): the text of a value, "None" for None
Str(v) == IF v = None THEN "None" ELSE v

\* Python's `a or b` on two strings: a unless it is empty
StrOr(a, b) == IF a # "" THEN a ELSE b

\* a mapping that gives HIGH the tag of CRITICAL
get_color_by_risk_level_HighAsCritical(risk_level) ==
    IF risk_level \in {"critical", "high"} THEN "red"
    ELSE IF risk_level = "medium" THEN "yellow1"
    ELSE IF risk_level = "low" THEN "dodger_blue2"
    ELSE "green"

\* Outputter._get_color_by_risk_level
get_color_by_risk_level(risk_level) ==
    IF risk_level = "critical" THEN "red"
    ELSE IF risk_level = "high" THEN "dark_orange"
    ELSE IF risk_level = "medium" THEN "yellow1"
    ELSE IF risk_level = "low" THEN "dodger_blue2"
    ELSE "green"

\* PrettyOutputter._get_scan_info_panel: the rows Target, Scanned target,
\* Status and Overall risk level (the rows Started at, Type, Visibility and
\* Scan ID copy fields that are not modelled)
get_scan_info_panel(info) ==
    [title |-> "Scan Info",
     target |-> Str(info.target)
                    \o (IF info.redirect_url # None THEN " (redirect)" ELSE ""),
     scanned_target |-> StrOr(Str(info.redirect_url), Str(info.target)),
     status |-> info.status,
     percent |-> IF info.status = "RUNNING" THEN <<info.progress>> ELSE <<>>,
     risk |-> info.risk_level,
     risk_style |-> get_color_by_risk_level(info.risk_level)]

\* a call of _get_color_by_risk_level
GetColor ==
    /\ scan_info # NoInfo
    /\ color = ""
    /\ color' = get_color_by_risk_level(scan_info.risk_level)
    /\ UNCHANGED <<cmdVars, scan_info, panel>>

\* a call of _get_scan_info_panel; a ScanInfo holds a RiskLevel
GetScanInfoPanel ==
    /\ scan_info # NoInfo
    /\ scan_info.risk_level \in RiskLevel
    /\ panel = NoPanel
    /\ panel' = get_scan_info_panel(scan_info)
    /\ UNCHANGED <<cmdVars, scan_info, color>>

\* the rendering functions applied to a ScanInfo
InitPanel ==
    /\ cmd = None
    /\ output_file = None
    /\ output_type = "pretty"
    /\ indent \in Indents
    /\ Start
    /\ scan_info \in ScanInfo
    /\ panel = NoPanel
    /\ color = ""

NextPanel ==
    \/ GetColor
    \/ GetScanInfoPanel

SpecPanel == InitPanel /\ [][NextPanel]_vars

\* the commands, the result going to the console
NextCli ==
    \/ GetFetch
    \/ GetFetchFail
    \/ RunScan
    \/ RunScanFail
    \/ Poll
    \/ PollFail
    \/ Complete
    \/ ConsoleOutput

SpecCli == InitCli /\ [][NextCli]_vars

\* `run` invoked without --output-file and without --indent
InitRun ==
    /\ cmd = "run"
    /\ output_file = None
    /\ output_type \in ScanResultOutputType
    /\ indent = DefaultIndent
    /\ Start
    /\ NoRender

NextRun ==
    \/ RunScan
    \/ RunScanFail
    \/ Poll
    \/ PollFail
    \/ Complete
    \/ ConsoleOutput

\* `run` is one thread that never stops by itself: a call of the service
\* returns or raises, and the statement after it is executed
FairRun ==
    /\ InitRun
    /\ [][NextRun]_vars
    /\ WF_vars(RunScan \/ RunScanFail)
    /\ WF_vars(Poll \/ PollFail)
    /\ WF_vars(Complete)
    /\ WF_vars(ConsoleOutput)

\* the outputters, called by `get`
NextOut ==
    \/ GetFetch
    \/ GetFetchFail
    \/ ConsoleOutput
    \/ WriteAttempt
    \/ WriteFile
    \/ PromptAnswer

SpecOut == InitOut /\ [][NextOut]_vars

\* ================================================================ claims
\* the largest progress among the first i snapshots fetched
MaxSeen(i) ==
    CHOOSE m \in {fetched[j].progress : j \in 1..i} :
        \A j \in 1..i : fetched[j].progress <= m

\* the lines of the console that carry msg
LinesOf(msg) == {i \in DOMAIN console : console[i].msg = msg}

\* C1: in `run`, the value shown on the progress indicator after each fetch is
\* the largest progress fetched so far, so the values shown never decrease.
C1_ShownIsMaxSoFar ==
    cmd = "run" =>
        /\ Len(shown) = Len(fetched)
        /\ \A i \in DOMAIN shown : shown[i] = MaxSeen(i)

\* C2: `run` fetches nothing after the first FINISHED snapshot, whatever its
\* progress, and the snapshot handed to the outputter is that snapshot.
C2_StopsAtFirstFinished ==
    cmd = "run" =>
        /\ \A i \in DOMAIN fetched :
                fetched[i].status = "FINISHED" =>
                    /\ i = Len(fetched)
                    /\ Len(calls) = 1 + i
                    /\ pc \in {"finished", "output", "done"}
        /\ rendered # <<>> =>
                /\ fetched # <<>>
                /\ fetched[Len(fetched)].status = "FINISHED"
                /\ rendered = <<fetched[Len(fetched)]>>

\* C2 happens: two snapshots fetched, the second FINISHED below 100 and rendered
C2_Witness ==
    /\ cmd = "run"
    /\ pc = "done"
    /\ Len(fetched) = 2
    /\ fetched[1].status = "RUNNING"
    /\ fetched[2].status = "FINISHED"
    /\ fetched[2].progress < 100
    /\ rendered = <<fetched[2]>>

\* the redirect is absent before snapshot k and has one value from k on
AbsentThenStable(k) ==
    /\ fetched[k].redirect_url # None
    /\ \A i \in 1..(k - 1) : fetched[i].redirect_url = None
    /\ \A i \in k..Len(fetched) : fetched[i].redirect_url = fetched[k].redirect_url

\* C3: when the redirect is absent in a prefix of the snapshots and then
\* present with one value, `run` prints one redirect notice, in the iteration
\* that fetched the first snapshot carrying the redirect.
C3_OneRedirectNotice ==
    cmd = "run" =>
        \A k \in DOMAIN fetched :
            AbsentThenStable(k) =>
                /\ notices = <<[iter |-> k, url |-> fetched[k].redirect_url]>>
                /\ Cardinality(LinesOf("redirect")) = 1

\* C3 happens: the redirect appears at the second of three snapshots and stays
C3_Witness ==
    /\ cmd = "run"
    /\ Len(fetched) = 3
    /\ AbsentThenStable(2)
    /\ Len(notices) = 1
    /\ pc = "done"

\* C4: in `run`, the redirect notice is printed at most once for each
\* redirect value, whatever the sequence of snapshots.
C4_OncePerRedirectValue ==
    cmd = "run" =>
        \A u \in RedirectUrls \ {None} :
            Cardinality({i \in DOMAIN notices : notices[i].url = u}) <= 1

\* a service call has raised APIError
APIErrorRaised == \E i \in DOMAIN calls : calls[i].result = "APIError"

\* C7: when run_scan or get_scan_result raises APIError, the message goes to
\* the error stream, no service call follows, no outputter is called (no
\* snapshot is rendered, one fetched earlier included) and the completion
\* notice is not printed.
C7_APIErrorAborts ==
    APIErrorRaised =>
        /\ calls[Len(calls)].result = "APIError"
        /\ \A i \in 1..(Len(calls) - 1) : calls[i].result = "ok"
        /\ console # <<>>
        /\ console[Len(console)] = Line("err", "api_error", "")
        /\ Cardinality(LinesOf("api_error")) = 1
        /\ LinesOf("complete") = {}
        /\ LinesOf("json") = {}
        /\ LinesOf("pretty") = {}
        /\ outputter = None
        /\ rendered = <<>>
        /\ pc = "done"

\* C7 happens: a fetch of `run` fails after a snapshot was fetched
C7_Witness ==
    /\ cmd = "run"
    /\ APIErrorRaised
    /\ Len(fetched) >= 1
    /\ pc = "done"

\* C8: a command ended by an APIError ends with an outcome other than that
\* of a command that fetched and rendered.
C8_ErrorOutcomeDiffers ==
    (pc = "done" /\ APIErrorRaised) => outcome # "returned"

\* C5: in a file outputter, after a permission error answered with an empty
\* response, no file is opened again, the result is printed on the console in
\* the outputter's format and output returns.
C5_EmptyAnswerFallsBack ==
    \A k \in DOMAIN answers :
        answers[k] = "" =>
            /\ Len(opens) = k
            /\ pc = "done" =>
                /\ outcome = "returned"
                /\ LinesOf(FormatOf(outputter)) # {}

\* C6: in a file outputter, when the first k >= 1 passes fail with a
\* permission error and the path then supplied is writable, the result is in
\* the file of the last answer, k prompts were issued, none after the write.
C6_RetryWritesLastAnswer ==
    (/\ outputter \in FileOutputters
     /\ Len(opens) >= 2
     /\ \A i \in 1..(Len(opens) - 1) : opens[i].result = "PermissionError"
     /\ opens[Len(opens)].result = "ok") =>
        LET k == Len(opens) - 1 IN
        /\ Len(answers) = k
        /\ Prompts = k
        /\ opens[k + 1].path = answers[k]
        /\ files[answers[k]] = FormatOf(outputter)
        /\ \A p \in Paths \ {answers[k]} : files[p] \in {None, "empty"}
        /\ console[Len(console)] = Line("out", "written", answers[k])
        /\ pc = "done"
        /\ outcome = "returned"

\* C6 happens: two permission errors, then the write to the second answer
C6_Witness ==
    /\ outputter \in FileOutputters
    /\ Len(opens) = 3
    /\ opens[1].path = "a"
    /\ opens[1].result = "PermissionError"
    /\ opens[2].result = "PermissionError"
    /\ opens[3].result = "ok"
    /\ answers = <<"a", "b">>
    /\ files["b"] # None

\* C9: in a file outputter, a failure of a pass that is no permission error
\* is not retried: no prompt, no further open, the error leaves output.
C9_OtherErrorPropagates ==
    \A i \in DOMAIN opens :
        opens[i].result \in {"FileNotFoundError", "OSError"} =>
            /\ i = Len(opens)
            /\ Prompts = i - 1
            /\ Len(answers) = i - 1
            /\ LinesOf("written") = {}
            /\ pc = "done"
            /\ outcome = opens[i].result

\* C9 happens: a pass fails with another error after one permission error
C9_Witness ==
    /\ Len(opens) = 2
    /\ opens[1].result = "PermissionError"
    /\ opens[2].path # ""
    /\ opens[2].result = "OSError"
    /\ outcome = "OSError"

\* C10: a file outputter never ends by raising a permission error: each
\* permission failure is reported and followed by a prompt.
C10_PermissionErrorContained ==
    /\ outcome # "PermissionError"
    /\ Cardinality({i \in DOMAIN opens : opens[i].result = "PermissionError"})
            = Cardinality(LinesOf("could_not_open"))
    /\ \A i \in LinesOf("could_not_open") :
            /\ console[i].stream = "err"
            /\ i + 1 \in DOMAIN console
            /\ console[i + 1].stream = "prompt"
    /\ \A i \in DOMAIN opens :
            (opens[i].result = "PermissionError" /\ i = Len(opens)) =>
                /\ pc \in {"prompt", "output", "writing"}
                /\ outcome = "running"

\* C10 happens: output ends after two permission errors
C10_Witness ==
    /\ Cardinality({i \in DOMAIN opens : opens[i].result = "PermissionError"}) = 2
    /\ pc = "done"

\* C11: create_outputter picks the class from (output_file is None) and
\* output_type alone: (None, JSON) JsonConsoleOutputter, (None, PRETTY)
\* PrettyConsoleOutputter, (path, JSON) JsonFileOutputter, (path, PRETTY)
\* PrettyFileOutputter; it returns one of the four for every input, and the
\* indent changes neither the class nor what a PRETTY outputter does.
C11_FactorySelection ==
    outputter # None =>
        /\ outputter \in {"JsonConsoleOutputter", "PrettyConsoleOutputter",
                          "JsonFileOutputter", "PrettyFileOutputter"}
        /\ answers = <<>> =>
            /\ (output_file = None /\ output_type = "json") =>
                    outputter = "JsonConsoleOutputter"
            /\ (output_file = None /\ output_type = "pretty") =>
                    outputter = "PrettyConsoleOutputter"
            /\ (output_file # None /\ output_type = "json") =>
                    outputter = "JsonFileOutputter"
            /\ (output_file # None /\ output_type = "pretty") =>
                    outputter = "PrettyFileOutputter"
        /\ outputter \in {"PrettyConsoleOutputter", "PrettyFileOutputter"} =>
            /\ self_indent = <<>>
            /\ \A i \in DOMAIN dumps :
                    dumps[i].format = "pretty" /\ dumps[i].indent = <<>>

\* C11 happens: a PRETTY outputter built with an indent of 0 has written a file
C11_Witness ==
    /\ outputter = "PrettyFileOutputter"
    /\ indent = 0
    /\ dumps # <<>>
    /\ pc = "done"

\* C12: the row "Scanned target" of the Scan Info panel shows the redirect
\* target when the ScanInfo has one and the original target when it has none.
C12_ScannedTargetRow ==
    panel # NoPanel =>
        panel.scanned_target =
            (IF scan_info.redirect_url # None
             THEN scan_info.redirect_url ELSE scan_info.target)

\* C17: CRITICAL, HIGH, MEDIUM and LOW each map to a fixed tag, the four tags
\* differ from one another and from the default tag, and NONE, an unknown
\* value and an absent one map to the default tag.
C17_RiskColors ==
    /\ color # "" =>
        /\ scan_info.risk_level = "critical" => color = "red"
        /\ scan_info.risk_level = "high" => color = "dark_orange"
        /\ scan_info.risk_level = "medium" => color = "yellow1"
        /\ scan_info.risk_level = "low" => color = "dodger_blue2"
        /\ scan_info.risk_level \in {"none", "unknown", None} => color = "green"
    /\ \A a, b \in {"critical", "high", "medium", "low"} :
            a # b => get_color_by_risk_level(a) # get_color_by_risk_level(b)
    /\ \A a \in {"critical", "high", "medium", "low"} :
            get_color_by_risk_level(a) # get_color_by_risk_level("none")

\* C17 happens: the colour of an absent risk level was asked for
C17_Witness ==
    /\ scan_info # NoInfo
    /\ scan_info.risk_level = None
    /\ color = "green"

\* output has returned
Returned == pc = "done" /\ outcome = "returned" /\ outputter # None

\* C13: every call of output that returns has printed a status line that
\* names the destination of the render, for each of the four outputters.
C13_StatusLineAlways ==
    Returned =>
        \E i \in LinesOf("written") :
            console[i].arg = (IF outputter \in FileOutputters
                              THEN output_file ELSE "console")

\* C13 as amended: a file outputter that returns has printed, last, the
\* status line naming the file it wrote; a console outputter that returns has
\* printed the render and no status line.
C13_StatusLineOfFileOutputters ==
    Returned =>
        IF outputter \in FileOutputters
        THEN /\ console # <<>>
             /\ console[Len(console)] = Line("out", "written", output_file)
             /\ Cardinality(LinesOf("written")) = 1
             /\ files[output_file] = FormatOf(outputter)
             /\ dumps = <<Dump(output_file, outputter, self_indent)>>
        ELSE /\ LinesOf("written") = {}
             /\ LinesOf(FormatOf(outputter)) # {}
             /\ dumps = <<Dump("console", outputter, self_indent)>>

\* C13 happens: a file outputter returns after a retry
C13_Witness ==
    /\ Returned
    /\ outputter = "JsonFileOutputter"
    /\ Len(answers) = 1
    /\ opens[1].path # output_file

\* C14: in PrettyFileOutputter.output the warning of a running scan goes to
\* the console and never to the file, only after a pass that wrote the file,
\* and the confirmation line follows it, naming the path that was written.
C14_WarningThenConfirmation ==
    outputter = "PrettyFileOutputter" =>
        /\ Cardinality(LinesOf("warning")) <= 1
        /\ \A i \in LinesOf("warning") :
                /\ console[i].stream = "out"
                /\ scan_result.status = "RUNNING"
                /\ opens[Len(opens)] = [path |-> output_file, result |-> "ok"]
                /\ files[output_file] = "pretty"
                /\ i + 1 = Len(console)
                /\ console[i + 1] = Line("out", "written", output_file)
        /\ (Returned /\ scan_result.status = "RUNNING") => LinesOf("warning") # {}
        /\ pc \in {"prompt", "writing", "output"} => LinesOf("warning") = {}
        /\ \A i \in DOMAIN dumps :
                /\ dumps[i].to = output_file
                /\ \A j \in DOMAIN dumps[i].parts : dumps[i].parts[j] # "warning"

\* C14 happens: a running scan is written to the second path after a
\* permission error on the first
C14_Witness ==
    /\ outputter = "PrettyFileOutputter"
    /\ Returned
    /\ scan_result.status = "RUNNING"
    /\ Len(answers) = 1
    /\ opens[1].result = "PermissionError"
    /\ opens[1].path # output_file
    /\ LinesOf("warning") # {}

\* C15: when `run` has left the loop on a FINISHED snapshot, the progress
\* indicator reads 100, whatever FINISHED snapshot the service returned.
C15_FinishedReads100 ==
    (/\ cmd = "run"
     /\ fetched # <<>>
     /\ fetched[Len(fetched)].status = "FINISHED") => completed = 100

\* C18: after each iteration of the loop of `run` the indicator holds the
\* progress of the snapshot fetched in that iteration, whatever was fetched
\* before, so the same snapshot fetched again leaves it unchanged.
C18_IndicatorIsLatestProgress ==
    cmd = "run" =>
        /\ Len(shown) = Len(fetched)
        /\ \A i \in DOMAIN shown : shown[i] = fetched[i].progress
        /\ fetched # <<>> => completed = fetched[Len(fetched)].progress
        /\ \A i \in DOMAIN shown :
                (i > 1 /\ fetched[i] = fetched[i - 1]) => shown[i] = shown[i - 1]

\* C18 happens: the same snapshot is fetched twice, then a lower progress
C18_Witness ==
    /\ cmd = "run"
    /\ Len(fetched) = 3
    /\ fetched[1] = fetched[2]
    /\ fetched[1].progress = 30
    /\ fetched[3].progress = 10
    /\ completed = 10

\* the first line of the console that carries msg, 0 when there is none
FirstLine(msg) ==
    IF LinesOf(msg) = {} THEN 0
    ELSE CHOOSE i \in LinesOf(msg) : \A j \in LinesOf(msg) : i <= j

\* C19: in a `run` without service errors the completion notice is printed
\* once and the final snapshot is handed to an outputter once, both after a
\* FINISHED snapshot was fetched: never while polling, never before the
\* notices of the scan id and the live URL.
C19_CompleteOnceAfterFinished ==
    (cmd = "run" /\ ~APIErrorRaised) =>
        /\ Cardinality(LinesOf("complete")) <= 1
        /\ Len(rendered) <= 1
        /\ pc \in {"start", "poll", "finished"} =>
                LinesOf("complete") = {} /\ rendered = <<>>
        /\ pc \in {"output", "done"} =>
                /\ Cardinality(LinesOf("complete")) = 1
                /\ Len(rendered) = 1
        /\ (LinesOf("complete") # {} \/ rendered # <<>>) =>
                /\ fetched # <<>>
                /\ fetched[Len(fetched)].status = "FINISHED"
                /\ FirstLine("scan_id") > 0
                /\ FirstLine("live_url") > FirstLine("scan_id")
                /\ FirstLine("complete") > FirstLine("live_url")
                /\ \A i \in LinesOf("json") \cup LinesOf("pretty") :
                        i > FirstLine("complete")

\* C19 happens: a `run` of three fetches has ended
C19_Witness ==
    /\ cmd = "run"
    /\ ~APIErrorRaised
    /\ pc = "done"
    /\ Len(fetched) = 3
    /\ LinesOf("complete") # {}

\* every snapshot `run` has fetched is PENDING or RUNNING and no call failed
StillRunning ==
    /\ cmd = "run"
    /\ ~APIErrorRaised
    /\ calls # <<>>
    /\ \A i \in DOMAIN fetched : fetched[i].status # "FINISHED"

\* the last snapshot `run` has fetched is FINISHED
FinishedFetched ==
    /\ cmd = "run"
    /\ fetched # <<>>
    /\ fetched[Len(fetched)].status = "FINISHED"

\* C16: the loop of `run` ends without an exception only on a FINISHED
\* snapshot: once one is fetched the loop ends and the result is rendered;
\* while every snapshot is PENDING or RUNNING the loop goes on fetching, and
\* nothing but a fetch can follow.
C16_LoopEndsOnFinishedOnly ==
    /\ [](StillRunning => (pc = "poll" /\ rendered = <<>>
                            /\ (Len(fetched) < MaxFetch => ENABLED Poll)))
    /\ [][(pc = "poll" /\ pc' # "poll") =>
            \/ pc' = "finished" /\ scan_result'.status = "FINISHED"
            \/ pc' = "done" /\ calls'[Len(calls')].result = "APIError"]_vars
    /\ (FinishedFetched ~> (pc = "done" /\ outcome = "returned" /\ fetched # <<>>
                             /\ rendered = <<fetched[Len(fetched)]>>))

\* C16 happens: a PENDING and a RUNNING snapshot, then FINISHED, and the render
C16_Witness ==
    /\ FinishedFetched
    /\ Len(fetched) = 3
    /\ fetched[1].status = "PENDING"
    /\ fetched[2].status = "RUNNING"
    /\ pc = "done"
    /\ rendered # <<>>

\* C20: a file outputter holds at most one file handle, and only during the
\* body of a pass: none while the user is prompted, none once output has
\* returned or raised.
C20_HandlesScoped ==
    /\ handles \in {0, 1}
    /\ handles = 1 <=> pc = "writing"
    /\ pc \in {"prompt", "done", "output"} => handles = 0

\* C20 happens: the write of the second pass fails and the error leaves output
C20_Witness ==
    /\ pc = "done"
    /\ Len(opens) = 2
    /\ opens[1].result = "PermissionError"
    /\ opens[2].result = "OSError"
    /\ files[output_file] = "empty"
    /\ handles = 0

====
